---------------------------- MODULE Spec2Model ----------------------------
(***************************************************************************)
(* Model of the singleton crate:                                           *)
(*   src/src/singleton.rs   Singleton<T>  (state + ptr, two atomics)       *)
(*   src/src/preemptive.rs  PreemptiveSingleton<T> (payload tagged with    *)
(*                          the ThreadId of the initializing thread)       *)
(*   src/src/lib.rs         pointer-sentinel Singleton<T> and the          *)
(*                          CLEANUP_QUEUE registry drained by atexit       *)
(* Every atomic operation of the code (load, store, swap, compare-and-swap,*)
(* all SeqCst) is one step of the calling thread; a thread's local         *)
(* variables keep the names they have in the source.                       *)
(***************************************************************************)
EXTENDS Integers, Sequences, FiniteSets, TLC

\* ------------------------------------------------------------------ bounds
NumThreads == 3
MaxCalls == 4
NumAddrs == 2
MaxFinalize == 2
NumCells == 2
NumLibThreads == 2
MaxLibCalls == 3

\* --------------------------------------------------------------- constants
\* enum SingletonState (singleton.rs)
Initial == 0
Loading == 1
Ready == 2
Finalized == 3

\* std::ptr::null_mut()
NULL == 0
\* lib.rs: let invalid_ptr = 1 as *mut Mutex<T>
invalid_ptr == 1

Threads == 1..NumThreads
\* heap addresses Box::new may hand out (never null, never the sentinel)
Addrs == (invalid_ptr + 1)..(invalid_ptr + NumAddrs)
\* ThreadId of "no thread": the payload of a plain Singleton<T> carries none
NoThread == 0
\* the thread that runs exit() and with it the atexit handlers
ExitThread == NumThreads + 1
\* the threads that call singleton() of lib.rs
LibThreads == 1..NumLibThreads
\* the static cells of lib.rs (SINGLETON_A, SINGLETON_B, ...); a cell's
\* number also stands for its type parameter T
Cells == 1..NumCells

VARIABLES
    state,      \* Singleton.state : AtomicUsize
    ptr,        \* Singleton.ptr   : AtomicPtr<T>
    heap,       \* Addrs -> [live, thread_id]: the boxes made by Box::new
    pc,         \* per thread: position in the operation it is running
    op,         \* per thread: the operation of its current / last call
    cur_state,  \* per thread: local cur_state of get_or_insert_with
    v,          \* per thread: local v (get_or_insert_with), old_ptr (finalize), ptr (singleton)
    pre_ref,    \* per thread: local pre_ref of the PreemptiveSingleton methods
    res,        \* per thread: outcome of its last completed call
    ret,        \* per thread: address returned by its last completed call
    calls,      \* calls started so far, by all threads
    afterFin,   \* per thread: a finalize() had returned when its call began
    initLog,    \* history: threads that ran the initializer f(), in order
    winners,    \* history: threads whose Initial->Loading CAS succeeded
    published,  \* history: addresses stored into ptr by line 103, in order
    returned,   \* history: addresses returned by completed get() calls
    finDone,    \* history: some finalize() call has returned
    finCalls,   \* history: finalize() calls started so far
    lptr,       \* lib.rs: per cell, Singleton.ptr : AtomicPtr<Mutex<T>>
    CLEANUP_QUEUE, \* lib.rs: the Vec<CleanUpRecord> behind the Mutex
    lock,       \* lib.rs: holder of the CLEANUP_QUEUE Mutex
    atexit,     \* lib.rs: number of libc::atexit registrations made
    exit_pc,    \* the process: running, running its exit handlers, gone
    cb_runs,    \* exit handlers (cleanup_callback) started so far
    it,         \* cleanup_callback: position of the iterator `it`
    freed,      \* history: pointers handed to cleanup_fn, in order
    cell,       \* per thread: the cell (self) of its singleton() call
    raw_ptr     \* per thread: local raw_ptr of singleton()

cellVars == <<state, ptr>>
callVars == <<pc, op, res, ret, calls, afterFin>>
locals == <<cur_state, v, pre_ref>>
histVars == <<initLog, winners, published, returned, finDone, finCalls>>

libVars == <<lptr, CLEANUP_QUEUE, lock, atexit, exit_pc, cb_runs, it, freed,
             cell, raw_ptr>>

vars == <<cellVars, heap, callVars, locals, histVars, libVars>>

PtrVals == {NULL} \cup Addrs
States == {Initial, Loading, Ready, Finalized}

TypeOK ==
    /\ state \in States
    /\ ptr \in PtrVals
    /\ heap \in [Addrs -> [live : BOOLEAN, thread_id : Threads \cup {NoThread}]]
    /\ pc \in [Threads -> STRING]
    /\ op \in [Threads -> STRING]
    /\ res \in [Threads -> STRING]
    /\ cur_state \in [Threads -> States]
    /\ v \in [Threads -> PtrVals]
    /\ pre_ref \in [Threads -> PtrVals]
    /\ ret \in [Threads -> PtrVals]
    /\ calls \in 0..MaxCalls
    /\ afterFin \in [Threads -> BOOLEAN]
    /\ returned \subseteq Addrs
    /\ winners \subseteq Threads
    /\ finDone \in BOOLEAN
    /\ finCalls \in 0..MaxFinalize
    /\ lptr \in [Cells -> PtrVals \cup {invalid_ptr}]
    /\ CLEANUP_QUEUE \in Seq([f : Cells, ptr : Addrs])
    /\ lock \in Threads \cup {NoThread, ExitThread}
    /\ atexit \in Nat
    /\ exit_pc \in {"run", "atexit", "cb49", "exited"}
    /\ cb_runs \in Nat
    /\ it \in Nat
    /\ freed \in Seq(Addrs)
    /\ cell \in [Threads -> Cells]
    /\ raw_ptr \in [Threads -> PtrVals \cup {invalid_ptr}]

\* make_singleton!() / Singleton::new(): state 0, every ptr null, the
\* CLEANUP_QUEUE empty; no thread has called anything yet
Init ==
    /\ state = Initial
    /\ ptr = NULL
    /\ heap = [a \in Addrs |-> [live |-> FALSE, thread_id |-> NoThread]]
    /\ pc = [t \in Threads |-> "idle"]
    /\ op = [t \in Threads |-> "none"]
    /\ cur_state = [t \in Threads |-> Initial]
    /\ v = [t \in Threads |-> NULL]
    /\ pre_ref = [t \in Threads |-> NULL]
    /\ res = [t \in Threads |-> "none"]
    /\ ret = [t \in Threads |-> NULL]
    /\ calls = 0
    /\ afterFin = [t \in Threads |-> FALSE]
    /\ initLog = <<>>
    /\ winners = {}
    /\ published = <<>>
    /\ returned = {}
    /\ finDone = FALSE
    /\ finCalls = 0
    /\ lptr = [c \in Cells |-> NULL]
    /\ CLEANUP_QUEUE = <<>>
    /\ lock = NoThread
    /\ atexit = 0
    /\ exit_pc = "run"
    /\ cb_runs = 0
    /\ it = 1
    /\ freed = <<>>
    /\ cell = [t \in Threads |-> 1]
    /\ raw_ptr = [t \in Threads |-> NULL]

\* --------------------------------------------------------- call plumbing
\* a thread between calls starts operation o (the call site); the calls
\* made are counted, and each Start action stops at its bound
Begin(t, o, first) ==
    /\ pc[t] = "idle"
    /\ calls' = calls + 1
    /\ op' = [op EXCEPT ![t] = o]
    /\ pc' = [pc EXCEPT ![t] = first]
    /\ res' = [res EXCEPT ![t] = "none"]
    /\ ret' = [ret EXCEPT ![t] = NULL]
    /\ afterFin' = [afterFin EXCEPT ![t] = finDone]

\* the call of t ends: "ok" with a reference, "absent" (None), or a panic
Finish(t, outcome, a) ==
    /\ pc' = [pc EXCEPT ![t] = "idle"]
    /\ res' = [res EXCEPT ![t] = outcome]
    /\ ret' = [ret EXCEPT ![t] = a]
    /\ UNCHANGED <<op, calls, afterFin>>

\* the call of t moves on to position next
Goto(t, next) ==
    /\ pc' = [pc EXCEPT ![t] = next]
    /\ UNCHANGED <<op, res, ret, calls, afterFin>>

\* a successful call hands address a to the user
Give(t, a) ==
    /\ Finish(t, "ok", a)
    /\ returned' = returned \cup {a}

\* get_or_insert_with returns &*a to its caller: the user for a Singleton,
\* PreemptiveSingleton::get_or_insert_with (pre_ref, line 71) otherwise
Return(t, a) ==
    IF op[t] = "get"
    THEN /\ Give(t, a)
         /\ UNCHANGED pre_ref
    ELSE /\ Goto(t, "p76")
         /\ pre_ref' = [pre_ref EXCEPT ![t] = a]
         /\ UNCHANGED returned

\* error_stateshift() / error_finalized() / error_occupied(): panic!
Panic(t, what) ==
    /\ Finish(t, what, NULL)
    /\ UNCHANGED returned

\* ------------------------------------------- Singleton::get_or_insert_with
\* Singleton::get is get_or_insert_with(Default::default) (lines 56-61)
StartGet(t) ==
    /\ calls < MaxCalls
    /\ Begin(t, "get", "l83")
    /\ UNCHANGED <<cellVars, heap, locals, histVars>>
    /\ UNCHANGED libVars

\* FastPath with a fault: the loaded pointer is ignored and every call goes
\* on to the compare-and-swap
FastPathSkip(t) ==
    /\ pc[t] = "l83"
    /\ Goto(t, "l87")
    /\ UNCHANGED <<cellVars, heap, locals, histVars>>
    /\ UNCHANGED libVars

\* lines 83-85: fast path, ptr.load(SeqCst)
FastPath(t) ==
    /\ pc[t] = "l83"
    /\ IF ptr # NULL
       THEN Return(t, ptr)
       ELSE /\ Goto(t, "l87")
            /\ UNCHANGED <<pre_ref, returned>>
    /\ UNCHANGED <<cellVars, heap, cur_state, v,
                   initLog, winners, published, finDone, finCalls>>
    /\ UNCHANGED libVars

\* CasLoading with a fault: the swap is not conditional on Initial, so a thread
\* that finds Loading is told Initial too and initializes as well
CasLoadingUnconditional(t) ==
    /\ pc[t] = "l87"
    /\ cur_state' = [cur_state EXCEPT ![t] =
                       IF state = Loading THEN Initial ELSE state]
    /\ state' = IF state = Initial THEN Loading ELSE state
    /\ winners' = IF state = Initial THEN winners \cup {t} ELSE winners
    /\ Goto(t, "spin")
    /\ UNCHANGED <<ptr, heap, v, pre_ref,
                   initLog, published, returned, finDone, finCalls>>
    /\ UNCHANGED libVars

\* lines 87-91: cur_state = state.compare_and_swap(Initial, Loading)
CasLoading(t) ==
    /\ pc[t] = "l87"
    /\ cur_state' = [cur_state EXCEPT ![t] = state]
    /\ state' = IF state = Initial THEN Loading ELSE state
    /\ winners' = IF state = Initial THEN winners \cup {t} ELSE winners
    /\ Goto(t, "spin")
    /\ UNCHANGED <<ptr, heap, v, pre_ref,
                   initLog, published, returned, finDone, finCalls>>
    /\ UNCHANGED libVars

\* Reload with a fault: the spin loop never reloads the state
ReloadStale(t) ==
    cur_state[t]

\* line 96: cur_state = self.state.load(SeqCst)
Reload(t) ==
    state

\* Spin with a fault: Finalized is treated like Loading, reload and retry
SpinRetryFinalized(t) ==
    /\ pc[t] = "spin"
    /\ IF cur_state[t] \in {Loading, Finalized}
       THEN /\ cur_state' = [cur_state EXCEPT ![t] = Reload(t)]
            /\ UNCHANGED callVars
       ELSE IF cur_state[t] = Initial
       THEN /\ Goto(t, "l102")
            /\ UNCHANGED cur_state
       ELSE /\ Goto(t, "l116")
            /\ UNCHANGED cur_state
    /\ UNCHANGED <<cellVars, heap, v, pre_ref, histVars>>
    /\ UNCHANGED libVars

\* lines 92-126: one turn of 'spin: dispatch on the local cur_state
Spin(t) ==
    /\ pc[t] = "spin"
    /\ IF cur_state[t] = Loading
       THEN \* lines 93-97: another thread is initializing; reload and retry
            /\ cur_state' = [cur_state EXCEPT ![t] = Reload(t)]
            /\ UNCHANGED callVars
       ELSE IF cur_state[t] = Initial
       THEN \* line 101: this thread won the CAS and initializes
            /\ Goto(t, "l102")
            /\ UNCHANGED cur_state
       ELSE IF cur_state[t] = Ready
       THEN \* line 116
            /\ Goto(t, "l116")
            /\ UNCHANGED cur_state
       ELSE \* line 124: error_finalized()
            /\ Finish(t, "finalized", NULL)
            /\ UNCHANGED cur_state
    /\ UNCHANGED <<cellVars, heap, v, pre_ref, histVars>>
    /\ UNCHANGED libVars

\* Box::new: the allocator hands out an address that holds no live box.
\* Addresses are only ever compared for equality, so the lowest free one
\* stands for any of them.
FreeAddrs == {a \in Addrs : ~heap[a].live}
Fresh == CHOOSE a \in FreeAddrs : \A b \in FreeAddrs : a <= b

\* line 102: let v = Box::into_raw(Box::new(f()))
\* the closure of preemptive.rs lines 71-74 puts thread::current().id()
\* into the payload; a plain Singleton<T> payload carries no thread id
InitAlloc(t) ==
    /\ pc[t] = "l102"
    /\ FreeAddrs # {}
    /\ heap' = [heap EXCEPT ![Fresh] =
                  [live |-> TRUE,
                   thread_id |-> IF op[t] = "get" THEN NoThread ELSE t]]
    /\ v' = [v EXCEPT ![t] = Fresh]
    /\ initLog' = Append(initLog, t)
    /\ Goto(t, "l103")
    /\ UNCHANGED <<cellVars, cur_state, pre_ref,
                   winners, published, returned, finDone, finCalls>>
    /\ UNCHANGED libVars

\* InitStall with a fault: a guard puts the state back to Initial when the
\* initializer fails
InitStallReset(t) ==
    /\ pc[t] = "l102"
    /\ state' = Initial
    /\ Goto(t, "stalled")
    /\ UNCHANGED <<ptr, heap, locals, histVars>>
    /\ UNCHANGED libVars

\* line 102, f(): the initializer is the caller's closure; it may panic or
\* never return, and then the call gets no further (nothing is allocated,
\* and no guard undoes the Loading state on unwind)
InitStall(t) ==
    /\ pc[t] = "l102"
    /\ Goto(t, "stalled")
    /\ UNCHANGED <<cellVars, heap, locals, histVars>>
    /\ UNCHANGED libVars

\* StorePtr with a fault: the new box is never stored into ptr
StorePtrSkip(t) ==
    /\ pc[t] = "l103"
    /\ Goto(t, "l104")
    /\ UNCHANGED <<cellVars, heap, locals, histVars>>
    /\ UNCHANGED libVars

\* line 103: self.ptr.store(v, SeqCst)
StorePtr(t) ==
    /\ pc[t] = "l103"
    /\ ptr' = v[t]
    /\ published' = Append(published, v[t])
    /\ Goto(t, "l104")
    /\ UNCHANGED <<state, heap, locals,
                   initLog, winners, returned, finDone, finCalls>>
    /\ UNCHANGED libVars

\* CasReady with a fault: a plain store of Ready, whatever the state was
CasReadyStore(t) ==
    /\ pc[t] = "l104"
    /\ cur_state' = [cur_state EXCEPT ![t] = Loading]
    /\ state' = Ready
    /\ Goto(t, "l116")
    /\ UNCHANGED <<ptr, heap, v, pre_ref, histVars>>
    /\ UNCHANGED libVars

\* lines 104-113: cur_state = state.compare_and_swap(Loading, Ready);
\* anything but Loading as the prior value is error_stateshift()
CasReady(t) ==
    /\ pc[t] = "l104"
    /\ cur_state' = [cur_state EXCEPT ![t] = state]
    /\ state' = IF state = Loading THEN Ready ELSE state
    /\ IF state # Loading
       THEN Finish(t, "stateshift", NULL)
       ELSE Goto(t, "l116")
    /\ UNCHANGED <<ptr, heap, v, pre_ref, histVars>>
    /\ UNCHANGED libVars

\* LoadFinal with a fault: the local v is returned, the pointer is not re-read
LoadFinalLocal(t) ==
    /\ pc[t] = "l116"
    /\ Return(t, v[t])
    /\ UNCHANGED <<cellVars, heap, cur_state, v,
                   initLog, winners, published, finDone, finCalls>>
    /\ UNCHANGED libVars

\* lines 116-121: re-read ptr; null here is error_stateshift()
LoadFinal(t) ==
    /\ pc[t] = "l116"
    /\ IF ptr # NULL
       THEN Return(t, ptr)
       ELSE /\ Panic(t, "stateshift")
            /\ UNCHANGED pre_ref
    /\ UNCHANGED <<cellVars, heap, cur_state, v,
                   initLog, winners, published, finDone, finCalls>>
    /\ UNCHANGED libVars

\* the steps of a get_or_insert_with call in progress
GetSteps(t) ==
    \/ FastPath(t)
    \/ CasLoading(t)
    \/ Spin(t)
    \/ InitAlloc(t)
    \/ StorePtr(t)
    \/ CasReady(t)
    \/ LoadFinal(t)

\* ------------------------------------------------------ Singleton::get_opt
\* lines 64-66: ptr.load(SeqCst).as_ref(); the call is this one load
GetOpt(t) ==
    /\ pc[t] = "idle"
    /\ calls < MaxCalls
    /\ calls' = calls + 1
    /\ op' = [op EXCEPT ![t] = "get_opt"]
    /\ afterFin' = [afterFin EXCEPT ![t] = finDone]
    /\ res' = [res EXCEPT ![t] = IF ptr # NULL THEN "ok" ELSE "absent"]
    /\ ret' = [ret EXCEPT ![t] = ptr]
    /\ UNCHANGED <<pc, cellVars, heap, locals, histVars>>
    /\ UNCHANGED libVars

\* ----------------------------------------------------- Singleton::finalize
\* unsafe fn finalize(&self), also run by Drop (lines 144-150)
StartFinalize(t) ==
    /\ calls < MaxCalls
    /\ finCalls < MaxFinalize
    /\ finCalls' = finCalls + 1
    /\ Begin(t, "finalize", "l134")
    /\ UNCHANGED <<cellVars, heap, locals,
                   initLog, winners, published, returned, finDone>>
    /\ UNCHANGED libVars

\* FinStore with a fault: Finalized is not stored, the state stays as it was
FinStoreSkip(t) ==
    /\ pc[t] = "l134"
    /\ Goto(t, "l136")
    /\ UNCHANGED <<cellVars, heap, locals, histVars>>
    /\ UNCHANGED libVars

\* FinStore with a fault: finalize resets the cell to Initial
FinStoreReset(t) ==
    /\ pc[t] = "l134"
    /\ state' = Initial
    /\ Goto(t, "l136")
    /\ UNCHANGED <<ptr, heap, locals, histVars>>
    /\ UNCHANGED libVars

\* lines 134-135: self.state.store(Finalized, SeqCst)
FinStore(t) ==
    /\ pc[t] = "l134"
    /\ state' = Finalized
    /\ Goto(t, "l136")
    /\ UNCHANGED <<ptr, heap, locals, histVars>>
    /\ UNCHANGED libVars

\* line 136: let old_ptr = self.ptr.swap(null_mut(), SeqCst)
FinSwap(t) ==
    /\ pc[t] = "l136"
    /\ v' = [v EXCEPT ![t] = ptr]
    /\ ptr' = NULL
    /\ Goto(t, "l137")
    /\ UNCHANGED <<state, heap, cur_state, pre_ref, histVars>>
    /\ UNCHANGED libVars

\* lines 137-141: return if old_ptr is null, else drop(Box::from_raw(old_ptr))
FinDrop(t) ==
    /\ pc[t] = "l137"
    /\ heap' = IF v[t] = NULL THEN heap
               ELSE [heap EXCEPT ![v[t]].live = FALSE]
    /\ Finish(t, "ok", NULL)
    /\ finDone' = TRUE
    /\ UNCHANGED <<cellVars, locals,
                   initLog, winners, published, returned, finCalls>>
    /\ UNCHANGED libVars

FinSteps(t) ==
    \/ FinStore(t)
    \/ FinSwap(t)
    \/ FinDrop(t)

\* ------------------------------------------------- PreemptiveSingleton
\* the outcomes of `pre_ref.thread_id == thread::current().id()` for thread
\* t and the box at a: one outcome while the box is live; reading a box
\* that finalize() has dropped is a use after free, and may give either
ThreadIdMatches(t, a) ==
    IF heap[a].live THEN {heap[a].thread_id = t} ELSE BOOLEAN

\* PreemptiveSingleton::get is get_or_insert_with(Default::default)
\* (lines 48-53); line 71 calls the inner Singleton::get_or_insert_with
StartPGet(t) ==
    /\ calls < MaxCalls
    /\ Begin(t, "pget", "l83")
    /\ UNCHANGED <<cellVars, heap, locals, histVars>>
    /\ UNCHANGED libVars

\* PCheck with a fault: the thread id is not compared
PCheckAnyThread(t) ==
    /\ pc[t] = "p76"
    /\ Give(t, pre_ref[t])
    /\ UNCHANGED <<cellVars, heap, locals,
                   initLog, winners, published, finDone, finCalls>>
    /\ UNCHANGED libVars

\* lines 76-80: owner gets &pre_ref.data, anyone else error_occupied()
PCheck(t) ==
    /\ pc[t] = "p76"
    /\ \E same \in ThreadIdMatches(t, pre_ref[t]) :
        IF same
        THEN Give(t, pre_ref[t])
        ELSE Panic(t, "occupied")
    /\ UNCHANGED <<cellVars, heap, locals,
                   initLog, winners, published, finDone, finCalls>>
    /\ UNCHANGED libVars

\* PreemptiveSingleton::get_opt (lines 57-64)
StartPGetOpt(t) ==
    /\ calls < MaxCalls
    /\ Begin(t, "pget_opt", "p58")
    /\ UNCHANGED <<cellVars, heap, locals, histVars>>
    /\ UNCHANGED libVars

\* line 58: if let Some(pre_ref) = self.singleton.get_opt()
PGetOptLoad(t) ==
    /\ pc[t] = "p58"
    /\ IF ptr # NULL
       THEN /\ Goto(t, "p59")
            /\ pre_ref' = [pre_ref EXCEPT ![t] = ptr]
       ELSE /\ Finish(t, "absent", NULL)
            /\ UNCHANGED pre_ref
    /\ UNCHANGED <<cellVars, heap, cur_state, v, histVars>>
    /\ UNCHANGED libVars

\* PGetOptCheck with a fault: the thread id is not compared
PGetOptAnyThread(t) ==
    /\ pc[t] = "p59"
    /\ Finish(t, "ok", pre_ref[t])
    /\ UNCHANGED <<cellVars, heap, locals, histVars>>
    /\ UNCHANGED libVars

\* lines 59-63: Some(&pre_ref.data) for the owner, None for anyone else
PGetOptCheck(t) ==
    /\ pc[t] = "p59"
    /\ \E same \in ThreadIdMatches(t, pre_ref[t]) :
        IF same
        THEN Finish(t, "ok", pre_ref[t])
        ELSE Finish(t, "absent", NULL)
    /\ UNCHANGED <<cellVars, heap, locals, histVars>>
    /\ UNCHANGED libVars

\* PreemptiveSingleton::finalize (lines 91-95), also run by Drop (98-104)
StartPFinalize(t) ==
    /\ calls < MaxCalls
    /\ finCalls < MaxFinalize
    /\ finCalls' = finCalls + 1
    /\ Begin(t, "pfinalize", "p92")
    /\ UNCHANGED <<cellVars, heap, locals,
                   initLog, winners, published, returned, finDone>>
    /\ UNCHANGED libVars

\* PFinCheck with a fault: the inner finalize() is called unconditionally
PFinAlways(t) ==
    /\ pc[t] = "p92"
    /\ Goto(t, "l134")
    /\ UNCHANGED <<cellVars, heap, locals, histVars>>
    /\ UNCHANGED libVars

\* line 92: if self.singleton.get_opt().is_some() { inner finalize() }
PFinCheck(t) ==
    /\ pc[t] = "p92"
    /\ IF ptr # NULL
       THEN Goto(t, "l134")
       ELSE Finish(t, "ok", NULL)
    /\ UNCHANGED <<cellVars, heap, locals, histVars>>
    /\ UNCHANGED libVars

PSteps(t) ==
    \/ PCheck(t)
    \/ PGetOptLoad(t)
    \/ PGetOptCheck(t)

\* ------------------------------------------------------------------ lib.rs
\* what no step of lib.rs touches
singVars == <<cellVars, cur_state, pre_ref, histVars>>

\* a thread calls SINGLETON_c.singleton() while the process is alive
StartSingleton(t, c) ==
    /\ exit_pc # "exited"
    /\ calls < MaxLibCalls
    /\ Begin(t, "singleton", "s69")
    /\ cell' = [cell EXCEPT ![t] = c]
    /\ UNCHANGED <<singVars, heap, v>>
    /\ UNCHANGED <<lptr, CLEANUP_QUEUE, lock, atexit, exit_pc, cb_runs, it,
                   freed, raw_ptr>>

\* where `while raw_ptr == null_ptr` (line 70) sends a thread that read p
AfterLoad(p) ==
    IF p = NULL THEN "s71" ELSE "s93"

\* line 69: let mut raw_ptr = self.ptr.load(SeqCst)
LoadPtr(t) ==
    /\ pc[t] = "s69"
    /\ exit_pc # "exited"
    /\ raw_ptr' = [raw_ptr EXCEPT ![t] = lptr[cell[t]]]
    /\ Goto(t, AfterLoad(lptr[cell[t]]))
    /\ UNCHANGED <<singVars, heap, v>>
    /\ UNCHANGED <<lptr, CLEANUP_QUEUE, lock, atexit, exit_pc, cb_runs, it,
                   freed, cell>>

\* CompareExchange with a fault: a plain store of the sentinel, made by
\* every thread that read null at line 69
CompareExchangeStore(t) ==
    /\ pc[t] = "s71"
    /\ exit_pc # "exited"
    /\ lptr' = [lptr EXCEPT ![cell[t]] = invalid_ptr]
    /\ Goto(t, "s82")
    /\ UNCHANGED <<singVars, heap, v>>
    /\ UNCHANGED <<CLEANUP_QUEUE, lock, atexit, exit_pc, cb_runs, it,
                   freed, cell, raw_ptr>>

\* lines 71-76: self.ptr.compare_exchange(null_ptr, invalid_ptr, ..)
CompareExchange(t) ==
    /\ pc[t] = "s71"
    /\ exit_pc # "exited"
    /\ IF lptr[cell[t]] = NULL
       THEN /\ lptr' = [lptr EXCEPT ![cell[t]] = invalid_ptr]
            /\ Goto(t, "s82")
       ELSE /\ Goto(t, "s77")
            /\ UNCHANGED lptr
    /\ UNCHANGED <<singVars, heap, v>>
    /\ UNCHANGED <<CLEANUP_QUEUE, lock, atexit, exit_pc, cb_runs, it,
                   freed, cell, raw_ptr>>

\* lines 77-78: raw_ptr = self.ptr.load(SeqCst); continue
ReloadPtr(t) ==
    /\ pc[t] = "s77"
    /\ exit_pc # "exited"
    /\ raw_ptr' = [raw_ptr EXCEPT ![t] = lptr[cell[t]]]
    /\ Goto(t, AfterLoad(lptr[cell[t]]))
    /\ UNCHANGED <<singVars, heap, v>>
    /\ UNCHANGED <<lptr, CLEANUP_QUEUE, lock, atexit, exit_pc, cb_runs, it,
                   freed, cell>>

\* line 82: let ptr = Box::into_raw(Box::new(Mutex::new(T::default())))
Chosen(t) ==
    /\ pc[t] = "s82"
    /\ exit_pc # "exited"
    /\ FreeAddrs # {}
    /\ heap' = [heap EXCEPT ![Fresh] = [live |-> TRUE, thread_id |-> NoThread]]
    /\ v' = [v EXCEPT ![t] = Fresh]
    /\ Goto(t, "r57")
    /\ UNCHANGED <<singVars, libVars>>

\* CleanupLock with a fault: the queue is entered without waiting for the lock
CleanupNoLock(t) ==
    /\ pc[t] = "r57"
    /\ exit_pc # "exited"
    /\ lock' = t
    /\ Goto(t, "r58")
    /\ UNCHANGED <<singVars, heap, v>>
    /\ UNCHANGED <<lptr, CLEANUP_QUEUE, atexit, exit_pc, cb_runs, it,
                   freed, cell, raw_ptr>>

\* cleanup_register, line 57: CLEANUP_QUEUE.lock().unwrap()
CleanupLock(t) ==
    /\ pc[t] = "r57"
    /\ exit_pc # "exited"
    /\ lock = NoThread
    /\ lock' = t
    /\ Goto(t, "r58")
    /\ UNCHANGED <<singVars, heap, v>>
    /\ UNCHANGED <<lptr, CLEANUP_QUEUE, atexit, exit_pc, cb_runs, it,
                   freed, cell, raw_ptr>>

\* cleanup_register, lines 58-62: if len() == 0 { libc::atexit(..) }
CleanupCheck(t) ==
    /\ pc[t] = "r58"
    /\ exit_pc # "exited"
    /\ atexit' = IF Len(CLEANUP_QUEUE) = 0 THEN atexit + 1 ELSE atexit
    /\ Goto(t, "r63")
    /\ UNCHANGED <<singVars, heap, v>>
    /\ UNCHANGED <<lptr, CLEANUP_QUEUE, lock, exit_pc, cb_runs, it,
                   freed, cell, raw_ptr>>

\* CleanupPush with a fault: the record is not pushed
CleanupPushSkip(t) ==
    /\ pc[t] = "r63"
    /\ exit_pc # "exited"
    /\ lock' = IF lock = t THEN NoThread ELSE lock
    /\ Goto(t, "s89")
    /\ UNCHANGED <<singVars, heap, v>>
    /\ UNCHANGED <<lptr, CLEANUP_QUEUE, atexit, exit_pc, cb_runs, it, freed,
                   cell, raw_ptr>>

\* cleanup_register, lines 63-64: push(record); the guard is dropped.
\* The record is the one built at lines 84-87: cleanup_fn::<T> and ptr
CleanupPush(t) ==
    /\ pc[t] = "r63"
    /\ exit_pc # "exited"
    /\ CLEANUP_QUEUE' = Append(CLEANUP_QUEUE, [f |-> cell[t], ptr |-> v[t]])
    /\ lock' = IF lock = t THEN NoThread ELSE lock
    /\ Goto(t, "s89")
    /\ UNCHANGED <<singVars, heap, v>>
    /\ UNCHANGED <<lptr, atexit, exit_pc, cb_runs, it, freed, cell, raw_ptr>>

\* lines 89-90: self.ptr.store(ptr, SeqCst); raw_ptr = ptr
PublishPtr(t) ==
    /\ pc[t] = "s89"
    /\ exit_pc # "exited"
    /\ lptr' = [lptr EXCEPT ![cell[t]] = v[t]]
    /\ raw_ptr' = [raw_ptr EXCEPT ![t] = v[t]]
    /\ Goto(t, "s93")
    /\ UNCHANGED <<singVars, heap, v>>
    /\ UNCHANGED <<CLEANUP_QUEUE, lock, atexit, exit_pc, cb_runs, it,
                   freed, cell>>

\* lines 93-97: while raw_ptr == invalid_ptr { reload }; then
\* raw_ptr.as_ref().unwrap(), which panics on null
WaitValid(t) ==
    /\ pc[t] = "s93"
    /\ exit_pc # "exited"
    /\ IF raw_ptr[t] = invalid_ptr
       THEN /\ raw_ptr' = [raw_ptr EXCEPT ![t] = lptr[cell[t]]]
            /\ UNCHANGED <<callVars, v>>
       ELSE \* the call returns and its locals (raw_ptr, ptr) are gone
            /\ IF raw_ptr[t] = NULL
               THEN Finish(t, "unwrap", NULL)
               ELSE Finish(t, "ok", raw_ptr[t])
            /\ raw_ptr' = [raw_ptr EXCEPT ![t] = NULL]
            /\ v' = [v EXCEPT ![t] = NULL]
    /\ UNCHANGED <<singVars, heap>>
    /\ UNCHANGED <<lptr, CLEANUP_QUEUE, lock, atexit, exit_pc, cb_runs, it,
                   freed, cell>>

SingletonSteps(t) ==
    \/ LoadPtr(t)
    \/ CompareExchange(t)
    \/ ReloadPtr(t)
    \/ Chosen(t)
    \/ CleanupLock(t)
    \/ CleanupCheck(t)
    \/ CleanupPush(t)
    \/ PublishPtr(t)
    \/ WaitValid(t)

\* main returns or exit() is called: the C runtime starts its exit handlers
ProcessExit ==
    /\ exit_pc = "run"
    /\ exit_pc' = "atexit"
    /\ UNCHANGED <<singVars, heap, callVars, v>>
    /\ UNCHANGED <<lptr, CLEANUP_QUEUE, lock, atexit, cb_runs, it, freed,
                   cell, raw_ptr>>

\* cleanup_callback, line 48: a registered handler starts and takes the lock
CallbackLock ==
    /\ exit_pc = "atexit"
    /\ cb_runs < atexit
    /\ lock = NoThread
    /\ lock' = ExitThread
    /\ cb_runs' = cb_runs + 1
    /\ it' = 1
    /\ exit_pc' = "cb49"
    /\ UNCHANGED <<singVars, heap, callVars, v>>
    /\ UNCHANGED <<lptr, CLEANUP_QUEUE, atexit, freed, cell, raw_ptr>>

\* EntryAt with a fault: the queue is walked from its last entry
EntryAtReversed(i) ==
    CLEANUP_QUEUE[Len(CLEANUP_QUEUE) + 1 - i]

\* the entry the iterator of line 49 yields at position i
EntryAt(i) ==
    CLEANUP_QUEUE[i]

\* cleanup_fn::<X> (lines 42-45): drop(Box::from_raw(ptr))
cleanup_fn(p) ==
    [heap EXCEPT ![p].live = FALSE]

\* cleanup_callback, lines 49-53: the next entry's cleanup_fn(it.ptr)
CallbackIter ==
    /\ exit_pc = "cb49"
    /\ it <= Len(CLEANUP_QUEUE)
    /\ heap' = cleanup_fn(EntryAt(it).ptr)
    /\ freed' = Append(freed, EntryAt(it).ptr)
    /\ it' = it + 1
    /\ UNCHANGED <<singVars, callVars, v>>
    /\ UNCHANGED <<lptr, CLEANUP_QUEUE, lock, atexit, exit_pc, cb_runs,
                   cell, raw_ptr>>

\* cleanup_callback, line 54: the iteration is over, the guard is dropped
CallbackEnd ==
    /\ exit_pc = "cb49"
    /\ it > Len(CLEANUP_QUEUE)
    /\ lock' = NoThread
    /\ exit_pc' = "atexit"
    /\ UNCHANGED <<singVars, heap, callVars, v>>
    /\ UNCHANGED <<lptr, CLEANUP_QUEUE, atexit, cb_runs, it, freed,
                   cell, raw_ptr>>

\* every registered handler has run: the process is gone, no thread runs on
Terminate ==
    /\ exit_pc = "atexit"
    /\ cb_runs >= atexit
    /\ exit_pc' = "exited"
    /\ UNCHANGED <<singVars, heap, callVars, v>>
    /\ UNCHANGED <<lptr, CLEANUP_QUEUE, lock, atexit, cb_runs, it, freed,
                   cell, raw_ptr>>

ExitSteps ==
    \/ ProcessExit
    \/ CallbackLock
    \/ CallbackIter
    \/ CallbackEnd
    \/ Terminate

\* ---------------------------------------------------------- specifications
\* threads calling get()/get_or_insert_with() and get_opt() on one cell
Next ==
    \E t \in Threads : StartGet(t) \/ GetOpt(t) \/ GetSteps(t)

Spec == Init /\ [][Next]_vars

\* the same with the unsafe finalize() called from any thread at any time
NextFin ==
    \E t \in Threads :
        \/ StartGet(t) \/ GetOpt(t) \/ GetSteps(t)
        \/ StartFinalize(t) \/ FinSteps(t)

SpecFin == Init /\ [][NextFin]_vars

\* threads calling get()/get_or_insert_with() and get_opt() on one
\* PreemptiveSingleton
NextP ==
    \E t \in Threads :
        StartPGet(t) \/ StartPGetOpt(t) \/ GetSteps(t) \/ PSteps(t)

SpecP == Init /\ [][NextP]_vars

\* the same with the unsafe PreemptiveSingleton::finalize()
NextPFin ==
    \E t \in Threads :
        \/ StartPGet(t) \/ StartPGetOpt(t) \/ GetSteps(t) \/ PSteps(t)
        \/ StartPFinalize(t) \/ PFinCheck(t) \/ FinSteps(t)

SpecPFin == Init /\ [][NextPFin]_vars

\* no call is in progress
Quiet ==
    \A t \in Threads : pc[t] = "idle"

\* a PreemptiveSingleton used by one call at a time (calls made in a row,
\* from any threads): a call starts only when no call is in progress
NextPSeq ==
    \E t \in Threads :
        \/ Quiet /\ StartPGet(t)
        \/ Quiet /\ StartPGetOpt(t)
        \/ Quiet /\ StartPFinalize(t)
        \/ GetSteps(t) \/ PSteps(t) \/ PFinCheck(t) \/ FinSteps(t)

SpecPSeq == Init /\ [][NextPSeq]_vars

\* lib.rs: threads calling singleton() on the static cells, and the
\* process exiting at any time
NextLib ==
    \/ \E t \in LibThreads :
          \/ \E c \in Cells : StartSingleton(t, c)
          \/ SingletonSteps(t)
    \/ ExitSteps

SpecLib == Init /\ [][NextLib]_vars

\* correct use, fairly scheduled: a call in progress keeps taking steps
\* (ordinary preemptive threads; no step of the call waits on anything)
SpecLive == Init /\ [][Next]_vars /\ \A t \in Threads : WF_vars(GetSteps(t))

\* the cell is used as a plain Singleton<T> / as a PreemptiveSingleton<T>
PlainCell ==
    \A t \in Threads : op[t] \in {"none", "get", "get_opt"}

PreemptiveCell ==
    \A t \in Threads : op[t] \in {"none", "pget", "pget_opt"}

\* a cell of either type, no finalize: the first call fixes which type the
\* cell is, the interface of the other type is not callable on it
NextCells ==
    \E t \in Threads :
        \/ PlainCell /\ StartGet(t)
        \/ PlainCell /\ GetOpt(t)
        \/ PreemptiveCell /\ StartPGet(t)
        \/ PreemptiveCell /\ StartPGetOpt(t)
        \/ GetSteps(t) \/ PSteps(t)

SpecCells == Init /\ [][NextCells]_vars

\* get and get_opt with an initializer that may fail, fairly scheduled
NextStall ==
    \E t \in Threads :
        StartGet(t) \/ GetOpt(t) \/ GetSteps(t) \/ InitStall(t)

SpecStall ==
    /\ Init
    /\ [][NextStall]_vars
    /\ \A t \in Threads : WF_vars(GetSteps(t))

\* get, get_opt and finalize on one Singleton, every thread that is inside
\* a call keeps running: get_or_insert_with and finalize have no blocking
\* operation, only atomic loads, stores and swaps
SpecFinLive ==
    /\ Init
    /\ [][NextFin]_vars
    /\ \A t \in Threads : WF_vars(GetSteps(t))
    /\ \A t \in Threads : WF_vars(FinSteps(t))

\* ------------------------------------------------------------------ claims
\* the calls that have ended, by operation
Ended(t, o) ==
    pc[t] = "idle" /\ op[t] = o /\ res[t] # "none"

\* C1: with any number of threads calling get()/get_or_insert_with() on one
\* Singleton and no finalize, the initializer runs at most once, only in a
\* thread whose Initial->Loading compare-and-swap succeeded, and every call
\* that ends returns the one address that was stored
C1_OneInitOneAddress ==
    /\ Len(initLog) <= 1
    /\ Cardinality(winners) <= 1
    /\ \A i \in 1..Len(initLog) : initLog[i] \in winners
    /\ Cardinality(returned) <= 1
    /\ \A t \in Threads :
         Ended(t, "get") =>
            /\ res[t] = "ok"
            /\ Len(initLog) = 1
            /\ published = <<ret[t]>>
            /\ returned = {ret[t]}

\* C1 witness: a thread that won the race and a thread that lost it (it saw
\* a null pointer, then Ready) both hold the same address
C1_Witness ==
    \E t, u \in Threads :
        /\ t # u
        /\ Ended(t, "get") /\ Ended(u, "get")
        /\ t \in winners
        /\ cur_state[u] = Ready
        /\ ret[t] = ret[u] /\ ret[t] \in Addrs

\* C2 (as stated): every get_opt() before a get() call has returned gives
\* None, every get_opt() after one has returned gives that call's address
C2_Original ==
    [][\A t \in Threads :
         GetOpt(t) =>
            /\ returned = {} => res'[t] = "absent"
            /\ returned # {} => res'[t] = "ok" /\ returned = {ret'[t]}]_vars

\* C2 (amended): every get_opt() before the initializing call has stored
\* the pointer (line 103) gives None; between that store and the call's
\* return it already gives the address; every get_opt() after a get() call
\* has returned gives that call's address
C2_AbsentUntilStored ==
    [][\A t \in Threads :
         GetOpt(t) =>
            /\ published = <<>> => res'[t] = "absent" /\ ret'[t] = NULL
            /\ published # <<>> => res'[t] = "ok" /\ published = <<ret'[t]>>
            /\ returned # {} => res'[t] = "ok" /\ returned = {ret'[t]}]_vars

\* C2 witness: get_opt() gave the address while the initializing call had
\* stored the pointer but not yet returned
C2_Witness ==
    \E t, u \in Threads :
        /\ Ended(t, "get_opt") /\ res[t] = "ok" /\ ret[t] = ptr
        /\ pc[u] = "l104"
        /\ returned = {}

\* C3: on a PreemptiveSingleton the initializer runs at most once; a
\* reference is only ever handed to the thread recorded in the payload, which
\* is the thread that ran the initializer; every get() of another thread ends
\* in error_occupied(); every get()/get_opt() of the owner after its
\* initialization gives the same address
C3_OnlyOwnerGetsRef ==
    /\ Len(initLog) <= 1
    /\ \A a \in Addrs :
         heap[a].live => initLog = <<heap[a].thread_id>>
    /\ \A t \in Threads :
         /\ res[t] = "ok" => initLog = <<t>> /\ published = <<ret[t]>>
         /\ Ended(t, "pget") =>
               /\ Len(initLog) = 1
               /\ res[t] = IF initLog[1] = t THEN "ok" ELSE "occupied"
         /\ res[t] = "occupied" => ret[t] = NULL
         /\ (Ended(t, "pget_opt") /\ initLog = <<t>>) => res[t] = "ok"

\* C3 witness: another thread was refused and the owner then read again
C3_Witness ==
    \E t, u \in Threads :
        /\ t # u
        /\ initLog = <<t>>
        /\ Ended(u, "pget") /\ res[u] = "occupied"
        /\ Ended(t, "pget_opt") /\ res[t] = "ok" /\ ret[t] = ptr

\* C4: get_opt() of a thread that is not the recorded owner of a
\* PreemptiveSingleton gives None, never a reference and never a panic
C4_NonOwnerAbsent ==
    \A t \in Threads :
        (Ended(t, "pget_opt") /\ initLog # <<t>>) =>
            res[t] = "absent" /\ ret[t] = NULL

\* C4 witness: a non-owner got None from a Ready cell whose payload it read
C4_Witness ==
    \E t, u \in Threads :
        /\ t # u
        /\ initLog = <<u>>
        /\ state = Ready
        /\ Ended(t, "pget_opt") /\ res[t] = "absent"
        /\ pre_ref[t] = ptr /\ ptr # NULL

\* C5 (as stated): a call that begins after a finalize() has returned gives
\* None if it is get_opt() and ends in error_finalized() if it is get()
C5_DeadAfterFinalize ==
    \A t \in Threads :
        afterFin[t] =>
            /\ Ended(t, "get_opt") => res[t] = "absent"
            /\ Ended(t, "get") => res[t] = "finalized"

\* C6 (as stated): once a finalize() has returned, the state is Finalized
\* and the pointer is null, for good
C6_FinalizedNull ==
    finDone => state = Finalized /\ ptr = NULL

\* C7: whatever get/get_or_insert_with/get_opt/finalize calls interleave,
\* one box at most is ever made for the cell, so one at most is live
C7_OneAllocation ==
    /\ Len(initLog) <= 1
    /\ Cardinality({a \in Addrs : heap[a].live}) <= 1
    /\ \A a \in Addrs : heap[a].live => Len(initLog) = 1

\* C7 witness: the cell was initialized, then finalized, and a later get()
\* made no new box
C7_Witness ==
    /\ Len(initLog) = 1
    /\ finDone
    /\ \A a \in Addrs : ~heap[a].live
    /\ \E t \in Threads : afterFin[t] /\ Ended(t, "get")

\* C8: without finalize and with every thread scheduled fairly, every
\* get()/get_or_insert_with() call returns a reference
C8_EveryCallReturns ==
    \A t \in Threads :
        (pc[t] # "idle") ~> (pc[t] = "idle" /\ res[t] = "ok" /\ ret[t] = ptr)

\* C8 witness: a thread that lost the race spins while the winner has not
\* stored the pointer yet
C8_Witness ==
    \E t, u \in Threads :
        /\ t # u
        /\ pc[t] = "spin" /\ cur_state[t] = Loading
        /\ u \in winners /\ pc[u] = "l103"

\* C9: libc::atexit is called once at most, by the registration that finds
\* CLEANUP_QUEUE empty: it has been called as soon as an entry is queued
\* and only if an entry is queued or about to be pushed under the lock
C9_AtexitOnce ==
    /\ atexit <= 1
    /\ Len(CLEANUP_QUEUE) > 0 => atexit = 1
    /\ atexit = 1 =>
          \/ Len(CLEANUP_QUEUE) > 0
          \/ \E t \in Threads : pc[t] = "r63" /\ lock = t

\* C9 witness: two registrations were made, the second without a new atexit
C9_Witness ==
    /\ Len(CLEANUP_QUEUE) >= 2
    /\ atexit = 1

\* C10: cleanup_callback runs once and hands the pointers queued before it
\* to cleanup_fn in registration order, each once and none skipped; until it
\* runs every queued pointer is a live box of its own and nothing is freed
C10_DrainInOrder ==
    /\ cb_runs <= 1
    /\ cb_runs = 0 =>
          /\ freed = <<>>
          /\ \A i \in 1..Len(CLEANUP_QUEUE) : heap[CLEANUP_QUEUE[i].ptr].live
          /\ \A i, j \in 1..Len(CLEANUP_QUEUE) :
               CLEANUP_QUEUE[i].ptr = CLEANUP_QUEUE[j].ptr => i = j
    /\ Len(freed) <= Len(CLEANUP_QUEUE)
    /\ \A i \in 1..Len(freed) : freed[i] = CLEANUP_QUEUE[i].ptr
    /\ \A i, j \in 1..Len(freed) : freed[i] = freed[j] => i = j
    /\ (exit_pc = "cb49" /\ it > Len(CLEANUP_QUEUE)) =>
          Len(freed) = Len(CLEANUP_QUEUE)

\* C10 witness: the callback has walked a queue of two entries to its end
C10_Witness ==
    /\ exit_pc = "exited"
    /\ Len(CLEANUP_QUEUE) >= 2
    /\ Len(freed) = Len(CLEANUP_QUEUE)

C12_StateMonotone ==
    [][state' # state =>
         \/ state = Initial /\ state' = Loading
         \/ state = Loading /\ state' = Ready
         \/ state' = Finalized]_vars

\* C12 witness: the cell went Initial -> Loading -> Ready (the initializer's
\* second compare-and-swap saw Loading and its call returned the value) and
\* was then finalized
C12_Witness ==
    /\ state = Finalized
    /\ finDone
    /\ \E t \in Threads :
           /\ Ended(t, "get")
           /\ res[t] = "ok"
           /\ initLog = <<t>>
           /\ cur_state[t] = Loading

\* C13: while finalize() is never called no get_or_insert_with call ends in
\* error_stateshift(): the compare-and-swap to Ready (line 104) is only
\* ever made with state = Loading, and the re-read of ptr before the return
\* (line 116) never finds null; error_finalized() is not reached either
C13_NoStateShift ==
    \A t \in Threads :
        /\ pc[t] = "l104" => state = Loading /\ ptr = v[t]
        /\ pc[t] = "l116" => state = Ready /\ ptr # NULL
        /\ res[t] \notin {"stateshift", "finalized"}

\* C13 witness: the initializer passed both checks and returned, and a
\* thread that had spun on Loading passed the re-read and returned as well
C13_Witness ==
    \E t, u \in Threads :
        /\ t # u
        /\ Ended(t, "get") /\ Ended(u, "get")
        /\ initLog = <<t>>
        /\ cur_state[t] = Loading
        /\ cur_state[u] = Ready
        /\ res[t] = "ok" /\ res[u] = "ok"
        /\ ret[t] = ptr /\ ret[u] = ptr
        /\ finCalls = 0

\* C14: the winner of the Initial -> Loading compare-and-swap registers a
\* destructor entry for its allocation before it moves state to Ready, so a
\* cell in Ready has exactly one CLEANUP_QUEUE entry for the box in ptr.
\* singleton.rs goes from ptr.store (line 103) straight to the
\* compare-and-swap (line 104) and never calls cleanup_register.
C14_ReadyHasDestructor ==
    state = Ready =>
        Cardinality({i \in 1..Len(CLEANUP_QUEUE) :
                        CLEANUP_QUEUE[i].ptr = ptr}) = 1

\* thread t won the Initial -> Loading compare-and-swap and has not yet
\* made the compare-and-swap to Ready (lines 98-104)
Initializing(t) ==
    \/ pc[t] = "spin" /\ cur_state[t] = Initial
    \/ pc[t] \in {"l102", "l103", "l104"}

\* thread t is in the spin loop waiting for another thread (lines 93-97)
Spinning(t) ==
    pc[t] = "spin" /\ cur_state[t] = Loading

\* C15: once finalize() has stored Finalized while a thread is between its
\* winning compare-and-swap and its compare-and-swap to Ready, that thread's
\* call ends in error_stateshift() with no reference, and every thread in
\* the spin loop ends in error_finalized() instead of spinning on
C15_FinalizeDuringInit ==
    \A t \in Threads :
        /\ (Initializing(t) /\ state = Finalized)
              ~> (pc[t] = "idle" /\ res[t] = "stateshift" /\ ret[t] = NULL)
        /\ (Spinning(t) /\ state = Finalized)
              ~> (pc[t] = "idle" /\ res[t] = "finalized" /\ ret[t] = NULL)

\* C15 witness: finalize() stored Finalized while t was initializing and u
\* was in the spin loop
C15_Witness ==
    \E t, u \in Threads :
        /\ state = Finalized
        /\ Initializing(t)
        /\ Spinning(u)

\* some thread won the compare-and-swap and its initializer never finished
Stalled ==
    \E s \in Threads : pc[s] = "stalled"

\* C16: when the initializer of the winning thread never finishes, the cell
\* stays in Loading with a null pointer, no get()/get_or_insert_with() call
\* ever returns (each reaches the spin loop and stays in it), and get_opt()
\* still returns absent in its one step
C16_StalledInitializer ==
    /\ [](Stalled => state = Loading /\ ptr = NULL /\ returned = {})
    /\ [][Stalled =>
            \A t \in Threads :
                /\ (op[t] = "get" /\ pc[t] # "idle") => pc'[t] # "idle"
                /\ Spinning(t) => Spinning(t)'
                /\ GetOpt(t) => res'[t] = "absent" /\ pc'[t] = "idle"]_vars
    /\ \A t \in Threads :
           (Stalled /\ pc[t] \in {"l83", "l87"}) ~> Spinning(t)

\* C16 witness: the initializer of s stalled, u is in the spin loop and a
\* get_opt() of w found nothing
C16_Witness ==
    \E s, u, w \in Threads :
        /\ pc[s] = "stalled"
        /\ Spinning(u)
        /\ Ended(w, "get_opt") /\ res[w] = "absent"
        /\ state = Loading /\ ptr = NULL

\* the threads between their winning compare_exchange on cell c and their
\* store of the valid pointer (lines 81-89)
Choosers(c) ==
    {t \in Threads :
        cell[t] = c /\ pc[t] \in {"s82", "r57", "r58", "r63", "s89"}}

\* C17: in the pointer-sentinel cell of lib.rs one thread wins the
\* null -> sentinel compare_exchange; it alone allocates and it alone writes
\* the valid pointer, which then never changes; the others spin while they
\* read the sentinel; every call returns the cell's valid pointer, never
\* null and never the sentinel
C17_SentinelOneWinner ==
    /\ [](\A c \in Cells :
             /\ Cardinality(Choosers(c)) <= 1
             /\ Choosers(c) # {} <=> lptr[c] = invalid_ptr
             /\ Cardinality({i \in 1..Len(CLEANUP_QUEUE) :
                                CLEANUP_QUEUE[i].f = c}) <= 1)
    /\ [](\A t \in Threads :
             /\ res[t] # "unwrap"
             /\ (op[t] = "singleton" /\ res[t] = "ok") =>
                   ret[t] \in Addrs /\ ret[t] = lptr[cell[t]]
             /\ (pc[t] = "s93" /\ raw_ptr[t] # invalid_ptr) =>
                   raw_ptr[t] \in Addrs /\ raw_ptr[t] = lptr[cell[t]])
    /\ [][\A c \in Cells :
            /\ lptr[c] \in Addrs => lptr'[c] = lptr[c]
            /\ (lptr[c] = NULL /\ lptr'[c] # NULL) => lptr'[c] = invalid_ptr
            /\ (lptr[c] = invalid_ptr /\ lptr'[c] # invalid_ptr) =>
                  \E t \in Choosers(c) :
                      PublishPtr(t) /\ lptr'[c] = v[t] /\ v[t] \in Addrs
            /\ \A t \in Threads :
                  (cell[t] = c /\ pc[t] = "s93" /\ raw_ptr[t] = invalid_ptr
                   /\ lptr[c] = invalid_ptr) => pc'[t] = "s93"]_vars

\* C17 witness: the winner on a cell has returned its pointer while another
\* caller of the same cell is still in the loop of line 93 with the
\* sentinel it read
C17_Witness ==
    \E t, u \in Threads :
        /\ t # u /\ cell[t] = cell[u]
        /\ Ended(t, "singleton") /\ res[t] = "ok"
        /\ ret[t] = lptr[cell[t]]
        /\ pc[u] = "s93" /\ raw_ptr[u] = invalid_ptr

\* what a read-only step leaves alone: the state field, the pointer, the
\* boxes on the heap and the record of initializer runs
ReadOnly ==
    UNCHANGED <<state, ptr, heap, initLog, winners, published>>

\* C18: get_opt() of either cell type writes neither state nor pointer and
\* never enters the initializing path; a get()/get_or_insert_with() call
\* whose first load (line 83) finds a non-null pointer returns that pointer
\* at once, with no initializer run and no write to state or pointer
C18_GetOptReadOnly ==
    [][\A t \in Threads :
         /\ GetOpt(t) =>
               /\ ReadOnly
               /\ pc'[t] = "idle"
               /\ res'[t] = IF ptr = NULL THEN "absent" ELSE "ok"
         /\ (\/ StartPGetOpt(t)
             \/ op[t] = "pget_opt" /\ pc[t] # "idle" /\ pc'[t] # pc[t]) =>
               /\ ReadOnly
               /\ pc'[t] \in {"p58", "p59", "idle"}
         /\ (pc[t] = "l83" /\ ptr # NULL /\ pc'[t] # pc[t]) =>
               /\ ReadOnly
               /\ op[t] = "get" =>
                     pc'[t] = "idle" /\ res'[t] = "ok" /\ ret'[t] = ptr
               /\ op[t] = "pget" =>
                     pc'[t] = "p76" /\ pre_ref'[t] = ptr]_vars

\* C18 witness: a get() that never went past line 83 has returned the
\* value another thread had initialized, and a get_opt() has returned it too
C18_Witness ==
    \E t, w \in Threads :
        /\ Ended(t, "get") /\ res[t] = "ok" /\ ret[t] = ptr
        /\ t \notin winners /\ cur_state[t] = Initial
        /\ Ended(w, "get_opt") /\ res[w] = "ok" /\ ret[w] = ptr
        /\ Len(initLog) = 1

\* C19: with finalize() interleaved anywhere, a cell whose state is Ready
\* holds a non-null pointer to a live box: the pointer is stored (line 103)
\* before the compare-and-swap to Ready (line 104), and finalize() stores
\* Finalized (line 134) before it swaps the pointer out (line 136)
C19_ReadyNonNull ==
    state = Ready =>
        /\ ptr # NULL
        /\ heap[ptr].live
        /\ published = <<ptr>>

\* C19 witness: the cell is Ready and a finalize() call is about to store
\* Finalized while another has not yet returned from get()
C19_Witness ==
    \E t, u \in Threads :
        /\ state = Ready /\ ptr # NULL
        /\ pc[t] = "l134"
        /\ pc[u] = "l116"

\* the CLEANUP_QUEUE records made for the box at a by the initializer of
\* cell c
Records(c, a) ==
    {i \in 1..Len(CLEANUP_QUEUE) :
        CLEANUP_QUEUE[i].f = c /\ CLEANUP_QUEUE[i].ptr = a}

\* C20: in lib.rs the record is pushed (line 84) before the valid pointer
\* is stored (line 89): whenever a cell holds a valid pointer, and already
\* when its initializer is about to store it, CLEANUP_QUEUE has exactly one
\* record for that box, and so has every pointer a singleton() call returned
C20_RegisteredBeforePublished ==
    /\ \A c \in Cells :
           lptr[c] \in Addrs => Cardinality(Records(c, lptr[c])) = 1
    /\ \A t \in Threads :
           /\ pc[t] = "s89" => Cardinality(Records(cell[t], v[t])) = 1
           /\ (op[t] = "singleton" /\ res[t] = "ok") =>
                 Cardinality(Records(cell[t], ret[t])) = 1

\* C20 witness: one cell is published and its pointer has been returned,
\* while the initializer of the other cell has pushed its record and has
\* not yet stored the pointer
C20_Witness ==
    \E t, u \in Threads :
        /\ Ended(t, "singleton") /\ res[t] = "ok"
        /\ lptr[cell[t]] = ret[t]
        /\ pc[u] = "s89" /\ cell[u] # cell[t]
        /\ lptr[cell[u]] = invalid_ptr
        /\ Len(CLEANUP_QUEUE) = 2

=============================================================================
